---- MODULE Spec2Model ----
(***************************************************************************)
(* A model of finit, the /sbin/init replacement: main() of src/src/finit.c *)
(* (bootstrap sequence, fsck passes, root remount, the bootstrap wait and  *)
(* finalize, fs_finalize, telinit), parse_finit_conf() of src/conf.c and   *)
(* the path watcher of src/src/iwatch.c.                                   *)
(*                                                                         *)
(* main() is cut into steps at the external commands it blocks on          *)
(* (sulogin, fsck, mount) and at its hooks; every callback of the event    *)
(* loop (crank_worker, bootstrap_worker, finalize) is one action.          *)
(***************************************************************************)
EXTENDS Integers, Sequences, FiniteSets, TLC

(***************************************************************************)
(* Bounds of the model                                                     *)
(***************************************************************************)
\* longest fstab the environment holds
MaxEntries == 2
\* longest declaration file handed to parse_finit_conf
MaxLines == 2
\* how far below zero bootstrap_worker's cnt is followed
MaxOverrun == 2
\* registrations in the list of a watcher, and watch descriptors of an
\* inotify instance
MaxWatches == 3
\* how many failed reads of one parse are counted
MaxReadErrors == 2

(***************************************************************************)
(* Program constants                                                       *)
(***************************************************************************)
\* config.h RUNLEVEL, the initial value of cfglevel
RUNLEVEL == 2
\* static int cnt = 120 * 10 in bootstrap_worker
BootstrapPolls == 1200
\* for (pass = 1; pass < 10; pass++) in fsck_all
PassLimit == 10
\* sysexits.h EX_OSFILE, sulogin's rc when no sulogin program is found
EX_OSFILE == 72

NULL == <<"NULL">>

VARIABLES
    pc,         \* where main() is
    rescue,     \* int rescue
    cmdlevel,   \* int cmdlevel
    cfglevel,   \* int cfglevel
    bootstrap,  \* int bootstrap
    runparts,   \* char *runparts
    fstab,      \* char *fstab: "default" (FINIT_FSTAB) or "custom"
    entries,    \* the mntent records of the fstab, as getmntent returns them
    pass,       \* fsck_all: pass
    idx,        \* fsck: position of getmntent_r in the file
    rc,         \* fsck: rc
    fsckerr,    \* the argument of fs_remount_root
    checked,    \* history: the fsck commands run, <<entry, pass, exit code>>
    remounted,  \* history: "mount -n -o remount,rw /" was run
    mountrc,    \* history: exit code of "mount -na", -1 before it ran
    hooks,      \* history: the hooks run by plugin_run_hooks, in order
    suwhy,      \* history: why sulogin was called
    pending,    \* work scheduled with schedule_work
    cnt,        \* bootstrap_worker: static int cnt
    poll,       \* history: what the last poll of bootstrap_worker saw
    polls,      \* history: how often bootstrap_worker rescheduled itself
    reqlevel,   \* history: the argument of service_runlevel, -1 before
    ranparts,   \* history: run_parts was called
    finalized,  \* history: finalize ran
    stepsaw,    \* history: the service_step_all calls of finalize, each with
                \* the value of bootstrap it saw
    conf_pc,    \* where parse_finit_conf is
    conf_lines, \* the lines fgets has not returned yet
    username, hostname, rcsd,
    lastarg,    \* history: the argument of the last runlevel directive
    network, sdown, console,
    conf_file,  \* history: the lines of the file being parsed
    declared,   \* history: the svc_register calls of this parse
    ioerr,      \* the stream of the file fails every read from now on
    rderrs,     \* history: the fgets calls of this parse that failed
    did,        \* history: the steps of main() that have run
    conds,      \* the one-shot conditions that are set
    dirs,       \* the directories that exist
    mnts,       \* the mount points, as fismnt() sees them
    mlog,       \* history: the targets of the fs_mount calls, in order
    pid,        \* getpid()
    argv,       \* the command line of a telinit call
    request,    \* history: the command telinit passed to systemf
    status,     \* the value main() returned, -1 before
    printed,    \* history: what telinit printed
    initialized,\* iwatch.c: static int initialized
    iwfd,       \* iw->fd: "open" while it names an inotify instance
    iwlist,     \* iw->iwp_list, head first
    kwatch,     \* the watches of the inotify instance iw->fd
    nextwd,     \* the next watch descriptor of the instance
    present,    \* the paths for which fexist() is true
    last        \* history: the last iwatch call, its result and the state before

mainVars == <<pc, rescue, cmdlevel, bootstrap, runparts, hooks, suwhy>>
fsVars   == <<fstab, entries, pass, idx, rc, fsckerr, checked, remounted, mountrc>>
loopVars == <<pending, cnt, poll, polls, reqlevel, ranparts, finalized, stepsaw>>
confVars == <<cfglevel, conf_pc, conf_lines, username, hostname, rcsd, lastarg,
             network, sdown, console, conf_file, declared, ioerr, rderrs>>
stepVars == <<did, conds>>
finVars  == <<dirs, mnts, mlog>>
tiVars   == <<pid, argv, request, status, printed>>
iwVars   == <<initialized, iwfd, iwlist, kwatch, nextwd, present, last>>
restVars == <<stepVars, finVars, tiVars, iwVars>>
vars     == <<mainVars, fsVars, loopVars, confVars, restVars>>

(***************************************************************************)
(* src/conf.c: the text helpers.  A line's argument is a sequence of       *)
(* one-character strings.                                                  *)
(***************************************************************************)
DigitChars == <<"0", "1", "2", "3", "4", "5", "6", "7", "8", "9">>
Digits == {DigitChars[i] : i \in 1..10}
DigitVal(c) == (CHOOSE i \in 1..10 : DigitChars[i] = c) - 1

RECURSIVE SkipBlank(_)
SkipBlank(s) ==
    IF s # <<>> /\ Head(s) = " " THEN SkipBlank(Tail(s)) ELSE s

RECURSIVE CutComment(_)
CutComment(s) ==
    IF s = <<>> \/ Head(s) = "#" THEN <<>>
    ELSE <<Head(s)>> \o CutComment(Tail(s))

\* strip_line: trim leading blanks, cut the line at the first '#'
strip_line(s) == CutComment(SkipBlank(s))

RECURSIVE DecVal(_)
DecVal(s) ==
    IF s = <<>> THEN 0
    ELSE 10 * DecVal(SubSeq(s, 1, Len(s) - 1)) + DigitVal(s[Len(s)])

\* strtonum(numstr, minval, maxval, &errstr): strtoll skips white space and
\* takes a sign and digits; anything left over, or no digit, is "invalid";
\* a value outside minval..maxval is "too small"/"too large"; on error the
\* result is 0 and errstr is set, on success errstr is NULL.
strtonum(s, minval, maxval) ==
    LET t      == SkipBlank(s)
        signed == t # <<>> /\ Head(t) \in {"-", "+"}
        body   == IF signed THEN Tail(t) ELSE t
        valid  == body # <<>> /\ \A i \in 1..Len(body) : body[i] \in Digits
        ll     == IF ~valid THEN 0
                  ELSE IF signed /\ Head(t) = "-" THEN 0 - DecVal(body)
                  ELSE DecVal(body)
        err    == ~valid \/ ll < minval \/ ll > maxval
    IN  [val |-> IF err THEN 0 ELSE ll, err |-> err]

\* the fallback test of the runlevel directive
ClampNo6(l) == IF l < 1 \/ l > 9 THEN 2 ELSE l
ClampRunlevel(l) == IF l < 1 \/ l > 9 \/ l = 6 THEN 2 ELSE l

\* the runlevel directive: the new value of cfglevel
ParseRunlevel(x) ==
    LET token == strip_line(x)
        n     == strtonum(token, 1, 9)
        lvl   == IF n.err THEN RUNLEVEL ELSE n.val
    IN  ClampRunlevel(lvl)

(***************************************************************************)
(* The declaration files of the environment                                *)
(***************************************************************************)
RunlevelArgs ==
    { <<"0">>, <<"1">>, <<"2">>, <<"5">>, <<"6">>, <<"7">>, <<"9">>,
      <<"1", "0">>, <<"-", "1">>, <<"-", "6">>, <<"x">>, <<>>,
      <<" ", "3">>, <<"6", "#">>, <<"4", "#", "6">>, <<"2", "x">> }

ConfLines ==
    { [kw |-> "runlevel", arg |-> a] : a \in RunlevelArgs }
    \cup { [kw |-> "host", arg |-> <<"h">>] }

FilesOf(lines, n) == UNION { [1..k -> lines] : k \in 0..n }

ConfFiles == FilesOf(ConfLines, MaxLines)

\* the files of a boot: at most one directive, runlevel or runparts
BootConfFiles ==
    FilesOf({ [kw |-> "runlevel", arg |-> a] : a \in {<<"2">>, <<"9">>} }
            \cup { [kw |-> "runparts", arg |-> <<"d">>] }, 1)

\* the files of a reload: every directive that sets a value of the snapshot,
\* and startx
SnapLines ==
    { [kw |-> "user", arg |-> <<"u">>], [kw |-> "user", arg |-> <<" ", "v">>],
      [kw |-> "host", arg |-> <<"h">>], [kw |-> "network", arg |-> <<"n">>],
      [kw |-> "runparts", arg |-> <<"d">>], [kw |-> "startx", arg |-> <<"x">>],
      [kw |-> "shutdown", arg |-> <<"s", "#", "c">>],
      [kw |-> "console", arg |-> <<"c">>], [kw |-> "runlevel", arg |-> <<"9">>] }
SnapFiles == FilesOf(SnapLines, MaxLines)

(***************************************************************************)
(* parse_finit_conf                                                        *)
(***************************************************************************)
\* lines 58-66: the defaults, then fopen
ParseBegin(files) ==
    /\ conf_pc \in {"idle", "done"}
    /\ username' = <<"DEFUSER">>
    /\ hostname' = <<"DEFHOST">>
    /\ rcsd' = <<"FINIT_RCSD">>
    /\ \/ \E f \in files : conf_lines' = f /\ conf_file' = f /\ conf_pc' = "reading"
       \/ conf_lines' = <<>> /\ conf_file' = <<>> /\ conf_pc' = "done"  \* fopen returned NULL
    /\ declared' = <<>>
    /\ ioerr' = FALSE /\ rderrs' = 0
    /\ UNCHANGED <<cfglevel, lastarg, network, sdown, console>>

\* svc_register: the service is recorded with a copy of the user's name
svc_register(type, line, user) == [type |-> type, cmd |-> line, user |-> user]

\* lines 130-133: the startx directive
StartxDefaultUser(x, user) == svc_register("service", strip_line(x), <<"DEFUSER">>)
StartxDecl(x, user) == svc_register("service", strip_line(x), user)

\* the number of the line fgets returned last
LineNo == Len(conf_file) - Len(conf_lines)

\* one round of the line loop, lines 67-187
ParseLine ==
    /\ conf_pc = "reading"
    /\ ~ioerr
    /\ conf_lines # <<>>
    /\ LET line == Head(conf_lines)
           x    == line.arg
           Set(kw, old) == IF line.kw = kw THEN strip_line(x) ELSE old
       IN
       /\ conf_lines' = Tail(conf_lines)
       /\ username' = Set("user", username)
       /\ hostname' = Set("host", hostname)
       /\ network' = Set("network", network)
       /\ rcsd' = Set("runparts", rcsd)
       /\ sdown' = Set("shutdown", sdown)
       /\ console' = Set("console", console)
       /\ declared' = IF line.kw = "startx"
                      THEN Append(declared, [at |-> LineNo + 1, svc |-> StartxDecl(x, username)])
                      ELSE declared
       /\ cfglevel' = IF line.kw = "runlevel" THEN ParseRunlevel(x) ELSE cfglevel
       /\ lastarg' = IF line.kw = "runlevel" THEN x ELSE lastarg
    /\ UNCHANGED <<conf_pc, conf_file, ioerr, rderrs>>
    /\ UNCHANGED <<mainVars, fsVars, loopVars>>
    /\ UNCHANGED restVars

\* feof: the loop ends, fclose
ParseEnd ==
    /\ conf_pc = "reading"
    /\ ~ioerr
    /\ conf_lines = <<>>
    /\ conf_pc' = "done"
    /\ UNCHANGED <<cfglevel, conf_lines, username, hostname, rcsd, lastarg>>
    /\ UNCHANGED <<network, sdown, console, conf_file, declared, ioerr, rderrs>>
    /\ UNCHANGED <<mainVars, fsVars, loopVars>>
    /\ UNCHANGED restVars

\* lines 67-69: fgets returns NULL on a read error, which sets the error
\* indicator of the stream and not its end-of-file indicator; the loop
\* continues and tests feof again. The error is either gone at the next read
\* or there at every later read (the path names a directory, the device is
\* gone).
ParseReadFail(sticky) ==
    /\ conf_pc = "reading"
    /\ ioerr' = (ioerr \/ sticky)
    /\ rderrs' = IF rderrs < MaxReadErrors THEN rderrs + 1 ELSE rderrs
    /\ UNCHANGED <<cfglevel, conf_pc, conf_lines, username, hostname, rcsd, lastarg>>
    /\ UNCHANGED <<network, sdown, console, conf_file, declared>>
    /\ UNCHANGED <<mainVars, fsVars, loopVars>>
    /\ UNCHANGED restVars

\* the first call of parse_finit_conf, outside the boot
ParseCall ==
    /\ pc = "lib"
    /\ conf_pc = "idle"
    /\ ParseBegin(ConfFiles)
    /\ UNCHANGED <<mainVars, fsVars, loopVars>>
    /\ UNCHANGED restVars

\* a reload: parse_finit_conf is called again, on any file
ParseAgain ==
    /\ pc = "lib"
    /\ ParseBegin(SnapFiles)
    /\ UNCHANGED <<mainVars, fsVars, loopVars>>
    /\ UNCHANGED restVars

(***************************************************************************)
(* src/src/finit.c: the environment of a boot                              *)
(***************************************************************************)
\* what stat(), S_ISBLK and ismnt() say of an fstab entry's device:
\* "blk" a device fsck can check, "notblk" not a block device (and neither
\* UUID=, LABEL= nor a resolvable /dev/root), "blk_rw" already mounted rw
DevKinds == {"blk", "notblk", "blk_rw"}
PassNos == {0, 1, 2, 10}
\* records of / (read-write or ro, checked in pass 1 or never) and of /home
\* (any pass number, any kind of device)
Entries ==
    { e \in [dir : {"/", "/home"}, ro : BOOLEAN, passno : PassNos, dev : DevKinds] :
        /\ e.dir = "/home" => ~e.ro
        /\ e.dir = "/" => e.passno \in {0, 1} /\ e.dev # "notblk" }
Fstabs == UNION { [1..n -> Entries] : n \in 0..MaxEntries }
\* the fstab of a plain system: / read-write, checked in pass 1
PlainFstabs == { << [dir |-> "/", ro |-> FALSE, passno |-> 1, dev |-> "blk"] >> }

\* exit codes of fsck(8): 0 clean, 1 errors corrected, 2 and up failure
FsckCodes == {0, 1, 2, 4}
\* exit codes of mount(8)
MountCodes == {0, 32}
\* what sulogin() returns: the shell's exit code, or EX_OSFILE without a shell
SuloginCodes == {0, 1, EX_OSFILE}
\* runlevels a kernel command line asks for; 0 is no override
CmdLevels == {0, 3}

RunHook(h) == hooks' = Append(hooks, h)

(***************************************************************************)
(* sulogin(1) and do_shutdown                                              *)
(***************************************************************************)
\* a call of sulogin(1): main() waits for the shell
CallSulogin(why) ==
    /\ pc' = "sulogin"
    /\ suwhy' = why

\* do_shutdown(SHUT_REBOOT): its last act is the reboot system call
do_shutdown == pc' = "rebooted"

\* sulogin(1), lines 122-141: the shell (if any) exits, then do_shutdown
SuloginReboot ==
    /\ pc = "sulogin"
    /\ do_shutdown
    /\ UNCHANGED <<rescue, cmdlevel, bootstrap, runparts, hooks, suwhy>>
    /\ UNCHANGED <<fsVars, loopVars, confVars>>
    /\ UNCHANGED restVars

(***************************************************************************)
(* main(), up to fs_mount_all                                              *)
(***************************************************************************)
\* line 734
FsInit ==
    /\ pc = "fs_init"
    /\ pc' = "cmdline"
    /\ UNCHANGED <<rescue, cmdlevel, bootstrap, runparts, hooks, suwhy>>
    /\ UNCHANGED <<fsVars, loopVars, confVars>>
    /\ UNCHANGED restVars

\* lines 739-759: conf_parse_cmdline sets rescue, cmdlevel and fstab
ConfParseCmdline(levels, paths) ==
    /\ pc = "cmdline"
    /\ \E r \in {0, 1}, l \in levels, f \in paths :
          /\ rescue' = r
          /\ cmdlevel' = l
          /\ fstab' = f
    /\ pc' = "rescue"
    /\ UNCHANGED <<bootstrap, runparts, hooks, suwhy>>
    /\ UNCHANGED <<entries, pass, idx, rc, fsckerr, checked, remounted, mountrc>>
    /\ UNCHANGED <<loopVars, confVars>>
    /\ UNCHANGED restVars

\* lines 764-765: if (rescue) rescue = sulogin(0)
Rescue ==
    /\ pc = "rescue"
    /\ IF rescue # 0
       THEN \E r \in SuloginCodes : rescue' = r /\ suwhy' = "rescue"
       ELSE UNCHANGED <<rescue, suwhy>>
    /\ pc' = "banner"
    /\ UNCHANGED <<cmdlevel, bootstrap, runparts, hooks>>
    /\ UNCHANGED <<fsVars, loopVars, confVars>>
    /\ UNCHANGED restVars

\* lines 771-792: plugin_init, banner, sig_init, cgroup_init
Banner ==
    /\ pc = "banner"
    /\ RunHook("BANNER")
    /\ pc' = "fs_mount_all"
    /\ UNCHANGED <<rescue, cmdlevel, bootstrap, runparts, suwhy>>
    /\ UNCHANGED <<fsVars, loopVars, confVars>>
    /\ UNCHANGED restVars

(***************************************************************************)
(* fs_mount_all, fsck_all, fsck, fs_remount_root                           *)
(***************************************************************************)
\* lines 437-457: the fstab fallback, then fsck_all unless in rescue mode
FsMountAllBegin ==
    /\ pc = "fs_mount_all"
    /\ \E fexist \in [{"default", "custom"} -> BOOLEAN] :
         LET f1 == IF fexist[fstab] THEN fstab ELSE "default" IN
         IF ~fexist[f1]
         THEN /\ CallSulogin("nofstab")
              /\ fstab' = f1
              /\ UNCHANGED pass
         ELSE /\ fstab' = f1
              /\ pc' = IF rescue # 0 THEN "rootfs_up" ELSE "fsck_open"
              /\ pass' = IF rescue # 0 THEN pass ELSE 1
              /\ UNCHANGED suwhy
    /\ UNCHANGED <<rescue, cmdlevel, bootstrap, runparts, hooks>>
    /\ UNCHANGED <<entries, idx, rc, fsckerr, checked, remounted, mountrc>>
    /\ UNCHANGED <<loopVars, confVars>>
    /\ UNCHANGED restVars

\* fsck, lines 205-210: setmntent of the first pass; the file's records are
\* what getmntent_r returns from here on
FsckOpen(files) ==
    /\ pc = "fsck_open"
    /\ \/ /\ CallSulogin("open")
          /\ UNCHANGED <<entries, idx, rc>>
       \/ /\ \E f \in files : entries' = f
          /\ idx' = 1
          /\ rc' = 0
          /\ pc' = "fsck"
          /\ UNCHANGED suwhy
    /\ UNCHANGED <<rescue, cmdlevel, bootstrap, runparts, hooks>>
    /\ UNCHANGED <<fstab, pass, fsckerr, checked, remounted, mountrc>>
    /\ UNCHANGED <<loopVars, confVars>>
    /\ UNCHANGED restVars

\* fsck, lines 221-255: the record is for this pass and its device can be
\* checked
Checkable(e, p) ==
    /\ ~(e.passno = 0 \/ e.passno # p)
    /\ e.dev # "notblk"
    /\ e.dev # "blk_rw"

\* the records of this pass that getmntent_r has yet to return
ToCheck == { j \in idx..Len(entries) : Checkable(entries[j], pass) }

\* fsck, line 269
FsckFailedAbove2(code) == code > 2
FsckFailed(code) == code > 1

\* fsck, lines 211-273: read on to the next record to check and run fsck on it
FsckRun ==
    /\ pc = "fsck"
    /\ ToCheck # {}
    /\ LET j == CHOOSE k \in ToCheck : \A m \in ToCheck : k <= m IN
       \E code \in FsckCodes :
          /\ checked' = Append(checked, [entry |-> j, pass |-> pass, code |-> code])
          /\ IF FsckFailed(code)
             THEN /\ CallSulogin("fsck")
                  /\ UNCHANGED <<idx, rc>>
             ELSE /\ rc' = rc + code
                  /\ idx' = j + 1
                  /\ UNCHANGED <<pc, suwhy>>
    /\ UNCHANGED <<rescue, cmdlevel, bootstrap, runparts, hooks>>
    /\ UNCHANGED <<fstab, entries, pass, fsckerr, remounted, mountrc>>
    /\ UNCHANGED <<loopVars, confVars>>
    /\ UNCHANGED restVars

\* fsck_all, lines 289-290
NeverBreak(r) == FALSE
FsckAllBreak(r) == r # 0

\* fsck, lines 276-278, and fsck_all, lines 287-293: no record is left in
\* this pass; fsck returns rc and the loop of fsck_all goes on or ends.
\* The next pass opens the same file again, and reads the same records.
FsckPassEnd ==
    /\ pc = "fsck"
    /\ ToCheck = {}
    /\ IF FsckAllBreak(rc) \/ ~(pass + 1 < PassLimit)
       THEN /\ fsckerr' = rc
            /\ pc' = "remount"
            /\ UNCHANGED <<pass, idx, rc>>
       ELSE /\ pass' = pass + 1
            /\ idx' = 1
            /\ rc' = 0
            /\ UNCHANGED <<pc, fsckerr>>
    /\ UNCHANGED <<rescue, cmdlevel, bootstrap, runparts, hooks, suwhy>>
    /\ UNCHANGED <<fstab, entries, checked, remounted, mountrc>>
    /\ UNCHANGED <<loopVars, confVars>>
    /\ UNCHANGED restVars

\* fs_remount_root, lines 318-320: the first record of /
RootEntries == { j \in 1..Len(entries) : entries[j].dir = "/" }
FirstRoot == CHOOSE k \in RootEntries : \A m \in RootEntries : k <= m

\* fs_remount_root(fsckerr), lines 309-335; the fstab that fsck has read
\* can still be opened
RemountRoot ==
    /\ pc = "remount"
    /\ remounted' = IF RootEntries = {} \/ entries[FirstRoot].ro THEN remounted
                    ELSE IF fsckerr # 0 THEN remounted
                    ELSE TRUE
    /\ pc' = "rootfs_up"
    /\ UNCHANGED <<rescue, cmdlevel, bootstrap, runparts, hooks, suwhy>>
    /\ UNCHANGED <<fstab, entries, pass, idx, rc, fsckerr, checked, mountrc>>
    /\ UNCHANGED <<loopVars, confVars>>
    /\ UNCHANGED restVars

\* lines 459-460
RootfsUp ==
    /\ pc = "rootfs_up"
    /\ RunHook("ROOTFS_UP")
    /\ pc' = "mount"
    /\ UNCHANGED <<rescue, cmdlevel, bootstrap, runparts, suwhy>>
    /\ UNCHANGED <<fsVars, loopVars, confVars>>
    /\ UNCHANGED restVars

\* lines 465-466: run_interactive returned non-zero
MountAlwaysFailed(m) == TRUE
MountFailed(m) == m # 0

\* lines 462-472: mount -na, the MOUNT_ERROR and MOUNT_POST hooks, swapon
MountAll ==
    /\ pc = "mount"
    /\ \E m \in MountCodes :
          /\ mountrc' = m
          /\ hooks' = IF MountFailed(m) THEN hooks \o <<"MOUNT_ERROR", "MOUNT_POST">>
                      ELSE Append(hooks, "MOUNT_POST")
    /\ did' = did \cup {"fs_swapon"}
    /\ pc' = "fs_finalize"
    /\ UNCHANGED <<rescue, cmdlevel, bootstrap, runparts, suwhy>>
    /\ UNCHANGED <<fstab, entries, pass, idx, rc, fsckerr, checked, remounted>>
    /\ UNCHANGED <<loopVars, confVars>>
    /\ UNCHANGED <<conds, finVars, tiVars, iwVars>>

(***************************************************************************)
(* fs_finalize.  A file system state s has the directories s.d, the mount  *)
(* points s.m and the fs_mount calls made so far s.log.                    *)
(***************************************************************************)
FinalPaths == {"/dev/shm", "/dev/pts", "/run", "/run/lock", "/tmp"}

fisdir(s, p) == p \in s.d
fismnt(s, p) == p \in s.m
makedir(s, p) == [s EXCEPT !.d = @ \cup {p}]
\* mount(2) succeeds on a target that exists
fs_mount(s, p) ==
    [d |-> s.d,
     m |-> IF p \in s.d THEN s.m \cup {p} ELSE s.m,
     log |-> Append(s.log, [dir |-> p, busy |-> p \in s.m])]

\* lines 365, 371, 394, 406: the test before a mount
MountAnyway(s, p) == TRUE
NotMounted(s, p) == ~fismnt(s, p)

\* lines 357-408
fs_finalize(s0) ==
    LET s1 == IF NotMounted(s0, "/dev/shm")
              THEN fs_mount(makedir(s0, "/dev/shm"), "/dev/shm") ELSE s0
        s2 == IF NotMounted(s1, "/dev/pts")
              THEN fs_mount(makedir(s1, "/dev/pts"), "/dev/pts") ELSE s1
        s3 == IF fisdir(s2, "/run") /\ NotMounted(s2, "/run")
              THEN fs_mount(makedir(fs_mount(s2, "/run"), "/run/lock"), "/run/lock")
              ELSE s2
    IN  IF NotMounted(s3, "/tmp") THEN fs_mount(s3, "/tmp") ELSE s3

\* the call, on the file systems as they are
RunFsFinalize ==
    LET s == fs_finalize([d |-> dirs, m |-> mnts, log |-> <<>>])
    IN  dirs' = s.d /\ mnts' = s.m /\ mlog' = s.log

\* line 475
FsFinalize ==
    /\ pc = "fs_finalize"
    /\ RunFsFinalize
    /\ did' = did \cup {"fs_finalize"}
    /\ pc' = "cond_init"
    /\ UNCHANGED <<rescue, cmdlevel, bootstrap, runparts, hooks, suwhy>>
    /\ UNCHANGED <<fsVars, loopVars, confVars>>
    /\ UNCHANGED <<conds, tiVars, iwVars>>

\* fs_finalize on any state of the file systems
FsFinalizeCall ==
    /\ pc = "lib"
    /\ RunFsFinalize
    /\ did' = did \cup {"fs_finalize"}
    /\ UNCHANGED <<mainVars, fsVars, loopVars, confVars>>
    /\ UNCHANGED <<conds, tiVars, iwVars>>

(***************************************************************************)
(* main(), from cond_init to the event loop                                *)
(***************************************************************************)
\* the name of a hook's condition
plugin_hook_str(h) == <<"hook", h>>

\* lines 801-808
CondInit ==
    /\ pc = "cond_init"
    /\ conds' = conds \cup {plugin_hook_str("BANNER"), plugin_hook_str("ROOTFS_UP")}
    /\ did' = did \cup {"cond_init"}
    /\ pc' = "conf_init"
    /\ UNCHANGED <<rescue, cmdlevel, bootstrap, runparts, hooks, suwhy>>
    /\ UNCHANGED <<fsVars, loopVars, confVars>>
    /\ UNCHANGED <<finVars, tiVars, iwVars>>

\* line 813: the declaration file is parsed
ConfInit(files) ==
    /\ pc = "conf_init"
    /\ conf_pc = "idle"
    /\ ParseBegin(files)
    /\ UNCHANGED <<mainVars, fsVars, loopVars>>
    /\ UNCHANGED restVars

\* lines 818-830, once the parse has returned
ConfInitDone ==
    /\ pc = "conf_init"
    /\ conf_pc = "done"
    /\ did' = did \cup {"conf_init"}
    /\ pc' = "basefs_up"
    /\ UNCHANGED <<rescue, cmdlevel, bootstrap, runparts, hooks, suwhy>>
    /\ UNCHANGED <<fsVars, loopVars, confVars>>
    /\ UNCHANGED <<conds, finVars, tiVars, iwVars>>

\* lines 832-833: the BASEFS_UP hook
BasefsUp ==
    /\ pc = "basefs_up"
    /\ RunHook("BASEFS_UP")
    /\ pc' = "api_init"
    /\ UNCHANGED <<rescue, cmdlevel, bootstrap, runparts, suwhy>>
    /\ UNCHANGED <<fsVars, loopVars, confVars>>
    /\ UNCHANGED restVars

\* lines 835-848: api_init, the two scheduled works, then uev_run
ApiInit ==
    /\ pc = "api_init"
    /\ did' = did \cup {"api_init"}
    /\ pending' = {"crank", "bootstrap"}
    /\ pc' = "uev_run"
    /\ UNCHANGED <<rescue, cmdlevel, bootstrap, runparts, hooks, suwhy>>
    /\ UNCHANGED <<cnt, poll, polls, reqlevel, ranparts, finalized, stepsaw>>
    /\ UNCHANGED <<fsVars, confVars>>
    /\ UNCHANGED <<conds, finVars, tiVars, iwVars>>

\* line 848: uev_run, the event loop of libuev, returns (the loop was
\* exited, or failed) and main returns its value
UevRunReturns ==
    /\ pc = "uev_run"
    /\ pc' = "exited"
    /\ UNCHANGED <<rescue, cmdlevel, bootstrap, runparts, hooks, suwhy>>
    /\ UNCHANGED <<fsVars, loopVars, confVars>>
    /\ UNCHANGED restVars

(***************************************************************************)
(* The callbacks of the event loop                                         *)
(***************************************************************************)
\* crank_worker, lines 558-566
CrankWorker ==
    /\ pc = "uev_run"
    /\ "crank" \in pending
    /\ pending' = pending \ {"crank"}
    /\ UNCHANGED <<cnt, poll, polls, reqlevel, ranparts, finalized, stepsaw>>
    /\ UNCHANGED <<mainVars, fsVars, confVars>>
    /\ UNCHANGED restVars

\* bootstrap_worker, line 597, with c the value of cnt before cnt--
PollUntilComplete(c, completed) == ~completed
PollWhileComplete(c, completed) == c > 0 /\ completed
PollAgain(c, completed) == c > 0 /\ ~completed

\* bootstrap_worker, lines 622-626
LevelFromConf(cmd, cfg) == cfg
Level(cmd, cfg) == IF cmd # 0 THEN cmd ELSE cfg

\* bootstrap_worker, lines 608-628, without the call of service_runlevel
ResumeNoRunlevel ==
    /\ pending' = (pending \ {"bootstrap"}) \cup {"final"}
    /\ ranparts' = (ranparts \/ (runparts # NULL /\ rescue = 0))
    /\ UNCHANGED reqlevel

\* bootstrap_worker, lines 608-628: finalize is scheduled, run_parts runs
\* (the directory is taken to exist), the runlevel is requested
ResumeBootstrap ==
    /\ pending' = (pending \ {"bootstrap"}) \cup {"final"}
    /\ ranparts' = (ranparts \/ (runparts # NULL /\ rescue = 0))
    /\ reqlevel' = Level(cmdlevel, cfglevel)

\* bootstrap_worker, lines 574-629; service_completed() is only called
\* while cnt > 0.  Its work is due after 100 ms, crank_worker's after 10 ms
\* (lines 717-724), so crank_worker has run.
BootstrapWorker ==
    /\ pc = "uev_run"
    /\ "bootstrap" \in pending
    /\ "crank" \notin pending
    /\ cnt + MaxOverrun > 0
    /\ \E completed \in (IF cnt > 0 THEN BOOLEAN ELSE {FALSE}) :
          /\ poll' = [budget |-> cnt, done |-> completed]
          /\ cnt' = cnt - 1
          /\ IF PollAgain(cnt, completed)
             THEN /\ polls' = polls + 1
                  /\ UNCHANGED <<pending, reqlevel, ranparts>>
             ELSE /\ ResumeBootstrap
                  /\ UNCHANGED polls
    /\ UNCHANGED <<finalized, stepsaw>>
    /\ UNCHANGED <<mainVars, fsVars, confVars>>
    /\ UNCHANGED restVars

\* finalize, lines 535 and 544: the hooks it runs, in order
FinalizeHooksSwapped == <<"SYSTEM_UP", "SVC_UP">>
FinalizeHooks == <<"SVC_UP", "SYSTEM_UP">>

\* finalize, lines 551-552: the value of bootstrap that
\* service_step_all(SVC_TYPE_RESPAWN) sees, with old the value before line
\* 551 and new the value after it
FlagBeforeClear(old, new) == old
FlagAtRespawn(old, new) == new

\* finalize, lines 527-553; /etc/rc.local is not modelled
Finalize ==
    /\ pc = "uev_run"
    /\ "final" \in pending
    /\ pending' = pending \ {"final"}
    /\ hooks' = hooks \o FinalizeHooks
    /\ bootstrap' = 0
    /\ stepsaw' = stepsaw \o
          << [type |-> "ANY", flag |-> bootstrap],
             [type |-> "ANY", flag |-> bootstrap],
             [type |-> "RESPAWN", flag |-> FlagAtRespawn(bootstrap, 0)] >>
    /\ finalized' = TRUE
    /\ UNCHANGED <<pc, rescue, cmdlevel, runparts, suwhy>>
    /\ UNCHANGED <<cnt, poll, polls, reqlevel, ranparts>>
    /\ UNCHANGED <<fsVars, confVars>>
    /\ UNCHANGED restVars

(***************************************************************************)
(* telinit.  A command line has opts, the option letters in the order      *)
(* getopt returns them ("?" also for a letter it does not know), and pos,  *)
(* the arguments from argv[optind] on.                                     *)
(***************************************************************************)
OptLetters == {"s", "t", "h", "v", "?"}
FirstArgs ==
    { <<"0">>, <<"6">>, <<"9">>, <<"q">>, <<"Q">>, <<"s">>, <<"S">>,
      <<"x">>, <<"-">>, <<>>, <<"3", "x">>, <<"q", "9">> }
Argvs ==
    [opts : FilesOf(OptLetters, 1), pos : FilesOf(FirstArgs, 1)]
NoArgs == [opts |-> <<>>, pos |-> <<>>]
\* the exit codes of initctl, as systemf returns them
InitctlCodes == {0, 1}

\* lines 678-692: how the getopt loop ends
RECURSIVE OptLoop(_)
OptLoop(opts) ==
    IF opts = <<>> THEN "end"
    ELSE IF Head(opts) \in {"v", "V"} THEN "version"
    ELSE IF Head(opts) \in {"h", "?"} THEN "usage"
    ELSE OptLoop(Tail(opts))

\* line 695: argv[optind][0], "NUL" for the empty argument
FirstChar(arg) == IF arg = <<>> THEN "NUL" ELSE arg[1]

\* lines 696-703: the command passed to systemf, <<>> when there is none
RequestDigitsOnly(req) ==
    IF req \in Digits THEN <<"runlevel", req>> ELSE <<>>
Request(req) ==
    IF req \in Digits THEN <<"runlevel", req>>
    ELSE IF req \in {"q", "Q"} THEN <<"reload">>
    ELSE IF req \in {"s", "S"} THEN <<"runlevel", req>>
    ELSE <<>>

\* lines 727-729
MainEntry ==
    /\ pc = "main"
    /\ IF pid # 1
       THEN \E a \in Argvs : argv' = a /\ pc' = "telinit"
       ELSE pc' = "fs_init" /\ UNCHANGED argv
    /\ UNCHANGED <<pid, request, status, printed>>
    /\ UNCHANGED <<rescue, cmdlevel, bootstrap, runparts, hooks, suwhy>>
    /\ UNCHANGED <<fsVars, loopVars, confVars>>
    /\ UNCHANGED <<stepVars, finVars, iwVars>>

\* telinit, lines 671-713, and the return of main
Telinit ==
    /\ pc = "telinit"
    /\ LET end == OptLoop(argv.opts)
           cmd == IF argv.pos = <<>> THEN <<>> ELSE Request(FirstChar(argv.pos[1]))
       IN  IF end = "version"
           THEN printed' = "version" /\ status' = 0 /\ UNCHANGED request
           ELSE IF end = "usage"
           THEN printed' = "usage" /\ status' = 0 /\ UNCHANGED request
           ELSE IF cmd # <<>>
           THEN /\ request' = cmd
                /\ \E r \in InitctlCodes : status' = r
                /\ UNCHANGED printed
           ELSE printed' = "usage" /\ status' = 1 /\ UNCHANGED request
    /\ pc' = "exited"
    /\ UNCHANGED <<pid, argv>>
    /\ UNCHANGED <<rescue, cmdlevel, bootstrap, runparts, hooks, suwhy>>
    /\ UNCHANGED <<fsVars, loopVars, confVars>>
    /\ UNCHANGED <<stepVars, finVars, iwVars>>

(***************************************************************************)
(* src/src/iwatch.c.  A registration is a record of iwp_list, named by its *)
(* position; a kernel watch is a record of kwatch.                         *)
(***************************************************************************)
\* a directory and a file in it
WatchPaths == {"/d", "/d/f"}
\* the paths below a path
Below(p) == IF p = "/d" THEN {"/d/f"} ELSE {}
\* a call: at is the position of the registration given to iwatch_del
NoCall ==
    [op |-> "none", path |-> "", ret |-> 0, existed |-> FALSE,
     list0 |-> <<>>, kw0 |-> {}, at |-> 0]
Call(op, path, ret) ==
    [op |-> op, path |-> path, ret |-> ret, existed |-> path \in present,
     list0 |-> iwlist, kw0 |-> kwatch, at |-> 0]

\* lines 80, 119, 136, 151: if (!initialized)
NeverDisabled == FALSE
Disabled == initialized = 0

\* inotify_rm_watch on the instance of iw->fd
inotify_rm_watch(kw, wd) == { w \in kw : w.wd # wd }
\* the watch descriptor inotify_add_watch returns: the one the path's inode
\* has already, or the next one of the instance
WdOf(kw, path) ==
    IF \E w \in kw : w.path = path
    THEN (CHOOSE w \in kw : w.path = path).wd
    ELSE nextwd

\* iwatch_init, lines 40-57
IwatchInit ==
    /\ pc = "lib"
    /\ iwlist' = <<>>
    /\ \/ /\ initialized' = 1 /\ iwfd' = "open"
          /\ kwatch' = {} /\ nextwd' = 1
          /\ last' = Call("init", "", 3)
       \/ /\ iwfd' = "none"                         \* inotify_init1 failed
          /\ kwatch' = {} /\ nextwd' = 1
          /\ last' = Call("init", "", -1)
          /\ UNCHANGED initialized
    /\ UNCHANGED present
    /\ UNCHANGED <<mainVars, fsVars, loopVars, confVars>>
    /\ UNCHANGED <<stepVars, finVars, tiVars>>

\* iwatch_exit, lines 59-72
IwatchExit ==
    /\ pc = "lib"
    /\ iwlist' = <<>>
    /\ kwatch' = {}
    /\ iwfd' = "none"
    /\ initialized' = 0
    /\ last' = Call("exit", "", 0)
    /\ UNCHANGED <<nextwd, present>>
    /\ UNCHANGED <<mainVars, fsVars, loopVars, confVars>>
    /\ UNCHANGED <<stepVars, finVars, tiVars>>

\* iwatch_add, line 83
fexistAnything(file) == TRUE
fexist(file) == file \in present

\* iwatch_add, line 114: the value of a successful call
AddReturnsWd(wd) == wd
AddReturn(wd) == 0

\* the calls of iwatch_add that may fail
AddFailures == {"strdup", "inotify_add_watch", "malloc"}

\* iwatch_add, lines 74-115; fail names the call that fails, if any
IwatchAdd(file, fails) ==
    /\ pc = "lib"
    /\ Len(iwlist) < MaxWatches
    /\ nextwd <= MaxWatches
    /\ \E fail \in fails \cup {"none"} :
          LET wd == WdOf(kwatch, file) IN
          IF Disabled
          THEN last' = Call("add", file, -1) /\ UNCHANGED <<iwlist, kwatch, nextwd>>
          ELSE IF ~fexist(file)
          THEN last' = Call("add", file, 0) /\ UNCHANGED <<iwlist, kwatch, nextwd>>
          ELSE IF fail = "strdup" \/ fail = "inotify_add_watch" \/ iwfd # "open"
          THEN last' = Call("add", file, -1) /\ UNCHANGED <<iwlist, kwatch, nextwd>>
          ELSE IF fail = "malloc"
          THEN /\ last' = Call("add", file, -1)
               /\ kwatch' = inotify_rm_watch(kwatch, wd)
               /\ nextwd' = IF wd = nextwd THEN nextwd + 1 ELSE nextwd
               /\ UNCHANGED iwlist
          ELSE /\ last' = Call("add", file, AddReturn(wd))
               /\ kwatch' = kwatch \cup {[wd |-> wd, path |-> file]}
               /\ nextwd' = IF wd = nextwd THEN nextwd + 1 ELSE nextwd
               /\ iwlist' = <<[path |-> file, wd |-> wd]>> \o iwlist
    /\ UNCHANGED <<initialized, iwfd, present>>
    /\ UNCHANGED <<mainVars, fsVars, loopVars, confVars>>
    /\ UNCHANGED <<stepVars, finVars, tiVars>>

\* TAILQ_REMOVE
KeepAll(list, i) == list
WithoutHead(list, i) == Tail(list)
Without(list, i) == SubSeq(list, 1, i - 1) \o SubSeq(list, i + 1, Len(list))

\* iwatch_del, lines 117-130, of the registration at position i; the
\* pointer is not followed while the watcher is disabled
IwatchDel(i) ==
    /\ pc = "lib"
    /\ IF Disabled
       THEN /\ last' = [Call("del", "", -1) EXCEPT !.at = i]
            /\ UNCHANGED <<iwlist, kwatch>>
       ELSE /\ i \in 1..Len(iwlist)
            /\ iwlist' = Without(iwlist, i)
            /\ kwatch' = IF iwfd = "open" THEN inotify_rm_watch(kwatch, iwlist[i].wd)
                          ELSE kwatch
            /\ last' = [Call("del", iwlist[i].path, 0) EXCEPT !.at = i]
    /\ UNCHANGED <<initialized, iwfd, nextwd, present>>
    /\ UNCHANGED <<mainVars, fsVars, loopVars, confVars>>
    /\ UNCHANGED <<stepVars, finVars, tiVars>>

\* TAILQ_FOREACH with a return: the first position of a set of positions,
\* 0 for NULL
FirstOf(at) == IF at = {} THEN 0 ELSE CHOOSE i \in at : \A j \in at : i <= j

\* iwatch_find_by_wd, lines 132-145
iwatch_find_by_wd(list, wd) ==
    IF Disabled THEN 0
    ELSE FirstOf({ i \in 1..Len(list) : list[i].wd = wd })

\* iwatch_find_by_path, lines 147-160
iwatch_find_by_path(list, path) ==
    IF Disabled THEN 0
    ELSE FirstOf({ i \in 1..Len(list) : list[i].path = path })

\* the environment: a path comes to exist, in a directory that exists
FileCreated(p) ==
    /\ pc = "lib"
    /\ p \notin present
    /\ \A q \in WatchPaths : p \in Below(q) => q \in present
    /\ present' = present \cup {p}
    /\ last' = Call("env", p, 0)
    /\ UNCHANGED <<initialized, iwfd, iwlist, kwatch, nextwd>>
    /\ UNCHANGED <<mainVars, fsVars, loopVars, confVars>>
    /\ UNCHANGED <<stepVars, finVars, tiVars>>

\* the environment: a path is removed, with all that is below it; the
\* kernel drops the watches of the inodes (IN_IGNORED)
FileRemoved(p) ==
    /\ pc = "lib"
    /\ p \in present
    /\ present' = present \ ({p} \cup Below(p))
    /\ kwatch' = { w \in kwatch : w.path \notin ({p} \cup Below(p)) }
    /\ last' = Call("env", p, 0)
    /\ UNCHANGED <<initialized, iwfd, iwlist, nextwd>>
    /\ UNCHANGED <<mainVars, fsVars, loopVars, confVars>>
    /\ UNCHANGED <<stepVars, finVars, tiVars>>

(***************************************************************************)
(* Initial states                                                          *)
(***************************************************************************)
InitGlobals ==
    /\ rescue = 0 /\ cmdlevel = 0 /\ cfglevel = RUNLEVEL /\ bootstrap = 1
    /\ runparts = NULL /\ fstab = "default"
    /\ entries = <<>> /\ pass = 0 /\ idx = 0 /\ rc = 0 /\ fsckerr = 0
    /\ checked = <<>> /\ remounted = FALSE /\ mountrc = -1
    /\ hooks = <<>> /\ suwhy = "none"
    /\ pending = {} /\ cnt = BootstrapPolls
    /\ poll = [budget |-> BootstrapPolls + 1, done |-> FALSE] /\ polls = 0 /\ reqlevel = -1
    /\ ranparts = FALSE /\ finalized = FALSE /\ stepsaw = <<>>
    /\ conf_pc = "idle" /\ conf_lines = <<>>
    /\ username = NULL /\ hostname = NULL /\ rcsd = <<"FINIT_RCSD">>
    /\ lastarg = <<"none">>
    /\ did = {} /\ conds = {}
    /\ network = NULL /\ sdown = NULL /\ console = NULL
    /\ conf_file = <<>> /\ declared = <<>>
    /\ ioerr = FALSE /\ rderrs = 0

\* a root file system with /run and /tmp, nothing mounted below /dev yet
InitPlainFs == dirs = {"/run", "/tmp"} /\ mnts = {} /\ mlog = <<>>

InitPid1 ==
    /\ pid = 1 /\ argv = NoArgs
    /\ request = <<>> /\ status = -1 /\ printed = "none"

InitIwatch ==
    /\ initialized = 0 /\ iwfd = "none" /\ iwlist = <<>>
    /\ kwatch = {} /\ nextwd = 1 /\ present = {} /\ last = NoCall

InitConf == pc = "lib" /\ InitGlobals /\ InitPlainFs /\ InitPid1 /\ InitIwatch

NextConf == ParseCall \/ ParseLine \/ ParseEnd

SpecConf == InitConf /\ [][NextConf]_vars

\* the parser with the read errors of the file. The loop is sequential code
\* that keeps running: a round that can be taken is taken. Whether a read
\* fails is up to the file, so no fairness on the failures.
NextParse == ParseCall \/ ParseLine \/ ParseEnd \/ \E sticky \in BOOLEAN : ParseReadFail(sticky)

FairParse ==
    /\ InitConf
    /\ [][NextParse]_vars
    /\ WF_vars(ParseLine)
    /\ WF_vars(ParseEnd)

InitBoot == pc = "fs_init" /\ InitGlobals /\ InitPlainFs /\ InitPid1 /\ InitIwatch

\* main() with the event loop as a call that may return
NextBoot ==
    \/ FsInit \/ ConfParseCmdline({0}, {"default", "custom"}) \/ Rescue \/ Banner
    \/ FsMountAllBegin \/ FsckOpen(Fstabs) \/ FsckRun \/ FsckPassEnd
    \/ RemountRoot \/ RootfsUp \/ MountAll \/ FsFinalize
    \/ CondInit \/ ConfInit(BootConfFiles) \/ ParseLine \/ ParseEnd
    \/ ConfInitDone \/ BasefsUp \/ ApiInit
    \/ SuloginReboot \/ UevRunReturns

SpecBoot == InitBoot /\ [][NextBoot]_vars

\* the boot of a plain system with the event loop dispatching its callbacks
NextLoop ==
    \/ FsInit \/ ConfParseCmdline(CmdLevels, {"default"}) \/ Rescue \/ Banner
    \/ FsMountAllBegin \/ FsckOpen(PlainFstabs) \/ FsckRun \/ FsckPassEnd
    \/ RemountRoot \/ RootfsUp \/ MountAll \/ FsFinalize
    \/ CondInit \/ ConfInit(BootConfFiles) \/ ParseLine \/ ParseEnd
    \/ ConfInitDone \/ BasefsUp \/ ApiInit
    \/ SuloginReboot
    \/ CrankWorker \/ BootstrapWorker \/ Finalize

SpecWait == InitBoot /\ [][NextLoop]_vars

\* the event loop runs every callback that is scheduled, and does not return
FairWait ==
    /\ InitBoot /\ [][NextLoop]_vars
    /\ WF_vars(CrankWorker)
    /\ WF_vars(BootstrapWorker)
    /\ WF_vars(Finalize)

\* parse_finit_conf called time and again
NextSnap == ParseAgain \/ ParseLine \/ ParseEnd

SpecSnap == InitConf /\ [][NextSnap]_vars

\* fs_finalize on every state of the five paths: a mount point is a
\* directory, and /run/lock is below /run
InitFin ==
    /\ pc = "lib" /\ InitGlobals /\ InitPid1 /\ InitIwatch
    /\ dirs \in SUBSET FinalPaths /\ mnts \in SUBSET dirs
    /\ "/run/lock" \in dirs => "/run" \in dirs
    /\ mlog = <<>>

NextFin == FsFinalizeCall

SpecFin == InitFin /\ [][NextFin]_vars

\* main() of a process that is PID 1, or is not
Pids == {1, 300}

InitMain ==
    /\ pc = "main" /\ InitGlobals /\ InitPlainFs /\ InitIwatch
    /\ pid \in Pids /\ argv = NoArgs
    /\ request = <<>> /\ status = -1 /\ printed = "none"

NextMain == MainEntry \/ Telinit \/ NextBoot

SpecMain == InitMain /\ [][NextMain]_vars

\* the calls of a consumer of iwatch, and the paths that come and go
NextIwatch ==
    \/ IwatchInit \/ IwatchExit
    \/ \E p \in WatchPaths : IwatchAdd(p, AddFailures)
    \/ \E i \in 1..MaxWatches : IwatchDel(i)
    \/ \E p \in WatchPaths : FileCreated(p)
    \/ \E p \in WatchPaths : FileRemoved(p)

SpecIwatch == InitConf /\ [][NextIwatch]_vars

\* the calls of a consumer whose paths all exist and stay, and whose
\* iwatch_add calls do not fail
InitRegistry ==
    /\ pc = "lib" /\ InitGlobals /\ InitPlainFs /\ InitPid1
    /\ initialized = 0 /\ iwfd = "none" /\ iwlist = <<>>
    /\ kwatch = {} /\ nextwd = 1 /\ present = WatchPaths /\ last = NoCall

NextRegistry ==
    \/ IwatchInit
    \/ \E p \in WatchPaths : IwatchAdd(p, {})
    \/ \E i \in 1..MaxWatches : IwatchDel(i)

SpecRegistry == InitRegistry /\ [][NextRegistry]_vars

(***************************************************************************)
(* Properties                                                              *)
(***************************************************************************)
Checked == 1..Len(checked)
WasChecked(j) == \E i \in Checked : checked[i].entry = j
\* fsck_all has returned and fs_remount_root is about to be called
FsckAllReturned == pc = "remount"

\* C1: the bootstrap wait always ends.  bootstrap_worker reschedules itself
\* at most 1200 times, whatever service_completed() returns, and once its
\* work is scheduled finalize is scheduled and runs.
C1_BootstrapWaitEnds ==
    /\ [](polls <= BootstrapPolls)
    /\ ("bootstrap" \in pending) ~> ("final" \in pending)
    /\ ("bootstrap" \in pending) ~> finalized

\* the wait timed out after 1200 reschedules, and finalize ran
C1_Witness ==
    /\ polls = BootstrapPolls
    /\ poll = [budget |-> 0, done |-> FALSE]
    /\ finalized

\* C2: finalize is never scheduled prematurely.  A poll that sees an
\* incomplete run/task with budget left only reschedules; finalize is
\* scheduled, run-parts run and the runlevel requested only by a poll that
\* saw completion or an exhausted budget.
C2_NoPrematureFinalize ==
    /\ [][ (poll' # poll /\ poll'.budget > 0 /\ ~poll'.done)
             => /\ pending' = pending
                /\ "final" \notin pending'
                /\ reqlevel' = reqlevel
                /\ ranparts' = ranparts ]_vars
    /\ []( ("final" \in pending \/ finalized \/ reqlevel # -1 \/ ranparts)
             => (poll.done \/ poll.budget <= 0) )

\* finalize was scheduled by a poll that saw completion, after reschedules
C2_Witness ==
    /\ "final" \in pending
    /\ poll.done
    /\ poll.budget > 0
    /\ polls > 1

\* C3: PID 1 never exits: main never returns and exit is never called.
C3_Pid1NeverExits == pc # "exited"

C5_RequestedLevel ==
    reqlevel # -1 =>
        /\ cmdlevel # 0 => reqlevel = cmdlevel
        /\ cmdlevel = 0 => reqlevel = cfglevel
        /\ (cmdlevel = 0 /\ lastarg = <<"2">>) => reqlevel = 2
        /\ (cmdlevel = 0 /\ lastarg = <<"none">>) => reqlevel = RUNLEVEL

\* no override, "runlevel 2" configured, runlevel 2 requested
C5_Witness ==
    /\ reqlevel = 2
    /\ cmdlevel = 0
    /\ lastarg = <<"2">>

\* C6: after any runlevel directive the configured runlevel is within 1..9
\* and not 6; a legal argument (1-5, 7-9) is kept as given.
C6_RunlevelClamped ==
    /\ cfglevel \in (1..9) \ {6}
    /\ \A d \in {1, 2, 3, 4, 5, 7, 8, 9} :
          lastarg = <<DigitChars[d + 1]>> => cfglevel = d

\* "runlevel 6" was parsed and the fallback taken
C6_Witness ==
    /\ lastarg = <<"6">>
    /\ conf_pc = "done"
    /\ cfglevel = 2

\* C7: every record with fs_passno > 0 whose device can be checked is
\* checked, in ascending pass order, as long as no check fails; records with
\* fs_passno 0 are never checked.
C7_AllPassesChecked ==
    /\ \A i, j \in Checked : i < j => checked[i].pass <= checked[j].pass
    /\ \A i \in Checked : entries[checked[i].entry].passno # 0
    /\ (FsckAllReturned /\ \A i \in Checked : checked[i].code = 0)
          => \A j \in 1..Len(entries) :
                (entries[j].passno > 0 /\ entries[j].dev = "blk") => WasChecked(j)

C9_FsckFailureRecovers ==
    LET failed == \E i \in Checked : checked[i].code > 1 IN
    /\ failed =>
          /\ pc \in {"sulogin", "rebooted"}
          /\ suwhy = "fsck"
          /\ \A i \in Checked : checked[i].code > 1 => i = Len(checked)
          /\ ~remounted
          /\ mountrc = -1
          /\ \A k \in 1..Len(hooks) : hooks[k] = "BANNER"
    /\ suwhy = "fsck" => failed

\* a check exited 1, the next exited 2, and the system rebooted
C9_Witness ==
    /\ pc = "rebooted"
    /\ suwhy = "fsck"
    /\ Len(checked) = 2
    /\ checked[1].code = 1
    /\ checked[2].code = 2

\* C10: in a boot that gets past the checks without recovery, / is
\* remounted read-write exactly when the fstab lists / without "ro" (stated
\* for a boot that never called sulogin and an fstab with at most one
\* record of /).
C10_RootRemountedIfListedRw ==
    (pc = "rootfs_up" /\ suwhy = "none" /\ Cardinality(RootEntries) <= 1)
        => (remounted <=> \E j \in RootEntries : ~entries[j].ro)


Fired(h) == \E i \in 1..Len(hooks) : hooks[i] = h

\* C11: a failure of the mount-all step is not fatal.  The MOUNT_ERROR hook
\* has fired exactly when "mount -na" returned non-zero, and in both cases
\* the MOUNT_POST hook fired after it, swap was enabled and the boot went on
\* to the opinionated finalize step.
C11_MountFailureNotFatal ==
    mountrc # -1 =>
        /\ Fired("MOUNT_ERROR") <=> mountrc # 0
        /\ Fired("MOUNT_POST")
        /\ \A i, j \in 1..Len(hooks) :
              hooks[i] = "MOUNT_ERROR" /\ hooks[j] = "MOUNT_POST" => i < j
        /\ "fs_swapon" \in did
        /\ pc = "fs_finalize" \/ "fs_finalize" \in did

\* a boot whose "mount -na" failed has run fs_finalize
C11_Witness ==
    mountrc = 32 /\ Fired("MOUNT_ERROR") /\ "fs_finalize" \in did

HookOrder == <<"BANNER", "ROOTFS_UP", "MOUNT_POST", "BASEFS_UP", "SVC_UP", "SYSTEM_UP">>
IsBootHook(h) == h # "MOUNT_ERROR"
BootHooks == SelectSeq(hooks, IsBootHook)

\* C12: the bootstrap hooks fire in the order BANNER, ROOTFS_UP, MOUNT_POST,
\* BASEFS_UP, SVC_UP, SYSTEM_UP, none of them twice, and all of them have
\* fired once finalize has run; BASEFS_UP fires only after the declaration
\* file was loaded, and the control API is started only after BASEFS_UP.
C12_HookOrder ==
    /\ Len(BootHooks) <= Len(HookOrder)
    /\ BootHooks = SubSeq(HookOrder, 1, Len(BootHooks))
    /\ finalized => BootHooks = HookOrder
    /\ Fired("BASEFS_UP") => conf_pc = "done" /\ "conf_init" \in did
    /\ "api_init" \in did => Fired("BASEFS_UP")

\* a boot with a failed "mount -na" has reached the steady state
C12_Witness ==
    finalized /\ Fired("MOUNT_ERROR") /\ Fired("SYSTEM_UP") /\ "api_init" \in did

EarlyHooks == {"BANNER", "ROOTFS_UP", "MOUNT_POST", "MOUNT_ERROR"}

\* C13: once the condition store is initialized, the one-shot condition of
\* every hook that has fired before (BANNER, ROOTFS_UP, MOUNT_POST, and
\* MOUNT_ERROR when the mount step failed) is set.
C13_EarlyHooksHaveConditions ==
    "cond_init" \in did =>
        \A h \in EarlyHooks : Fired(h) => plugin_hook_str(h) \in conds

Mounted(p) == \E i \in 1..Len(mlog) : mlog[i].dir = p

LastLine(file, kw) ==
    LET at == { i \in 1..Len(file) : file[i].kw = kw }
    IN  IF at = {} THEN 0 ELSE CHOOSE i \in at : \A j \in at : j <= i
\* the argument of that line as strip_line leaves it
LastOf(file, kw, default) ==
    IF LastLine(file, kw) = 0 THEN default
    ELSE strip_line(file[LastLine(file, kw)].arg)

\* C15: when the declaration file has a runparts directive, its directory
\* exists and the boot is not a rescue boot, run-parts has run on exactly
\* that directory by the time bootstrap_worker requests the runlevel.
C15_RunpartsDirectoryRun ==
    (/\ reqlevel # -1
     /\ rescue = 0
     /\ \E i \in 1..Len(conf_file) : conf_file[i].kw = "runparts")
    => ranparts /\ runparts = LastOf(conf_file, "runparts", NULL)

AddedMissing == last.op = "add" /\ initialized = 1 /\ ~last.existed

\* C16, as stated: iwatch_add of a path that does not exist returns 0 and
\* leaves the list of registrations and the kernel watches as they were,
\* and iwatch_find_by_path of that path finds nothing.
C16_AddMissingFindsNothing ==
    AddedMissing =>
        /\ last.ret = 0
        /\ iwlist = last.list0 /\ kwatch = last.kw0
        /\ iwatch_find_by_path(iwlist, last.path) = 0

\* C16, amended: iwatch_add of a path that does not exist returns 0 and
\* leaves the list of registrations and the kernel watches as they were;
\* iwatch_find_by_path of that path finds nothing unless the path was
\* registered before the call.
C16_AddMissingInstallsNothing ==
    AddedMissing =>
        /\ last.ret = 0
        /\ iwlist = last.list0 /\ kwatch = last.kw0
        /\ \/ iwatch_find_by_path(iwlist, last.path) = 0
           \/ \E i \in 1..Len(last.list0) : last.list0[i].path = last.path

\* a path that does not exist was added while another path is registered
C16_Witness ==
    /\ AddedMissing /\ last.ret = 0
    /\ iwlist # <<>> /\ kwatch # {}
    /\ iwatch_find_by_path(iwlist, last.path) = 0

AddedNew ==
    /\ last.op = "add" /\ initialized = 1 /\ last.existed
    /\ Len(iwlist) = Len(last.list0) + 1

\* C17, as stated: a successful iwatch_add of a path that exists returns the
\* watch id of the new registration: iwatch_find_by_wd of the value returned
\* finds a registration whose path is the path added.
C17_AddReturnsWatchId ==
    AddedNew =>
        LET i == iwatch_find_by_wd(iwlist, last.ret)
        IN  i # 0 /\ iwlist[i].path = last.path

\* C17, amended: a successful iwatch_add of a path that exists returns 0;
\* the new registration is the one iwatch_find_by_path finds for the path,
\* and iwatch_find_by_wd of its watch descriptor finds a registration whose
\* path is the path added.
C17_AddRegistersWatchId ==
    AddedNew =>
        LET n == iwatch_find_by_path(iwlist, last.path)
        IN  /\ last.ret = 0
            /\ n = 1
            /\ LET i == iwatch_find_by_wd(iwlist, iwlist[n].wd)
               IN  i # 0 /\ iwlist[i].path = last.path

\* a path was added for the second time, after another one
C17_Witness ==
    /\ AddedNew /\ Len(iwlist) = 3
    /\ iwlist[3].path = last.path /\ iwlist[2].path # last.path

Bootstrapped == hooks # <<>> \/ did # {} \/ checked # <<>> \/ pending # {}
TelinitPcs == {"main", "telinit", "exited"}
Dispatched(c) ==
    IF c \in Digits \/ c \in {"s", "S"} THEN <<"runlevel", c>>
    ELSE IF c \in {"q", "Q"} THEN <<"reload">>
    ELSE <<>>
FirstPos == IF argv.pos = <<>> THEN "NUL" ELSE FirstChar(argv.pos[1])

\* C18, as stated: a process that is not PID 1 sends the request its first
\* positional argument names by its first character (a digit: that
\* runlevel; q or Q: reload; s or S: the single-user runlevel) and exits
\* with the status of the request; without such an argument it sends none,
\* prints the usage and exits non-zero.  It never runs a bootstrap step.
C18_TelinitDispatch ==
    pid # 1 =>
        /\ pc \in TelinitPcs /\ ~Bootstrapped
        /\ pc = "exited" =>
              /\ request = Dispatched(FirstPos)
              /\ request = <<>> => printed = "usage" /\ status # 0
              /\ request # <<>> => printed = "none" /\ status \in InitctlCodes

\* getopt returned none of -h, -?, -v, -V, nor a letter it does not know
NoInfoOption == \A i \in 1..Len(argv.opts) : argv.opts[i] \notin {"h", "?", "v", "V"}

\* C18, amended: as C18 when no option -h, -?, -v or -V (nor an unknown
\* one) is given; with such an option no request is sent, the usage or
\* the version is printed and the exit status is 0.
C18_TelinitDispatchNoInfoOption ==
    pid # 1 =>
        /\ pc \in TelinitPcs /\ ~Bootstrapped
        /\ (pc = "exited" /\ NoInfoOption) =>
              /\ request = Dispatched(FirstPos)
              /\ request = <<>> => printed = "usage" /\ status # 0
              /\ request # <<>> => printed = "none" /\ status \in InitctlCodes
        /\ (pc = "exited" /\ ~NoInfoOption) =>
              request = <<>> /\ printed \in {"usage", "version"} /\ status = 0

\* telinit s, after a compat option, has sent its request and failed
C18_Witness ==
    /\ pid # 1 /\ pc = "exited" /\ argv.opts = <<"t">>
    /\ request = <<"runlevel", "s">> /\ status = 1

\* C19: when the parse of a file with directives has ended, the user, the host name, the network
\* command, the runparts directory, the default runlevel, the console and
\* the shutdown command are those a parse of the same file from the state
\* of a fresh start gives: a directive of an earlier file leaves nothing.
C19_ReparseReplacesSnapshot ==
    (conf_pc = "done" /\ conf_file # <<>>) =>
        /\ username = LastOf(conf_file, "user", <<"DEFUSER">>)
        /\ hostname = LastOf(conf_file, "host", <<"DEFHOST">>)
        /\ rcsd = LastOf(conf_file, "runparts", <<"FINIT_RCSD">>)
        /\ network = LastOf(conf_file, "network", NULL)
        /\ sdown = LastOf(conf_file, "shutdown", NULL)
        /\ console = LastOf(conf_file, "console", NULL)
        /\ cfglevel = (IF LastLine(conf_file, "runlevel") = 0 THEN RUNLEVEL
                       ELSE ParseRunlevel(conf_file[LastLine(conf_file, "runlevel")].arg))

\* the user directives before line n of a file
UsersBefore(file, n) == { j \in 1..(n - 1) : file[j].kw = "user" }
UserAt(file, n) ==
    IF UsersBefore(file, n) = {} THEN <<"DEFUSER">>
    ELSE strip_line(file[CHOOSE j \in UsersBefore(file, n) :
                            \A k \in UsersBefore(file, n) : k <= j].arg)

\* C20: a startx declaration is registered under the user of the last user
\* directive before it in the file, or the built-in default user when there
\* is none; a user directive after it does not change that.
C20_StartxUser ==
    \A i \in 1..Len(declared) :
        /\ conf_file[declared[i].at].kw = "startx"
        /\ declared[i].svc.user = UserAt(conf_file, declared[i].at)

\* a parse has ended whose file has a user directive after a startx
\* declaration registered under another user
C20_Witness ==
    /\ conf_pc = "done"
    /\ \E i \in 1..Len(declared) :
          \E j \in (declared[i].at + 1)..Len(conf_file) :
             /\ conf_file[j].kw = "user"
             /\ strip_line(conf_file[j].arg) # declared[i].svc.user


\* C21: the bootstrap flag is set from the start until finalize and cleared
\* only there, once, with the SVC_UP and SYSTEM_UP hooks fired; the
\* service_step_all call of finalize that starts the respawning services
\* and TTYs sees the flag cleared, the calls before it see it set; no step
\* sets the flag again.
C21_BootstrapClearedOnce ==
    /\ [](bootstrap = (IF finalized THEN 0 ELSE 1))
    /\ [](finalized =>
            /\ Fired("SVC_UP") /\ Fired("SYSTEM_UP")
            /\ Len(stepsaw) = 3
            /\ \A i \in 1..Len(stepsaw) :
                  stepsaw[i].flag = (IF stepsaw[i].type = "RESPAWN" THEN 0 ELSE 1))
    /\ [][bootstrap' # bootstrap =>
            /\ bootstrap = 1 /\ bootstrap' = 0
            /\ ~finalized /\ finalized']_vars

\* finalize has run after a bootstrap wait with polls
C21_Witness ==
    finalized /\ bootstrap = 0 /\ polls > 0 /\ Len(stepsaw) = 3


\* C22: while the watcher is not initialized, iwatch_add and iwatch_del
\* return -1 and leave the list of registrations and the kernel watches as
\* they were, and both lookups find nothing; a successful iwatch_init
\* leaves an initialized watcher with an empty list, on which an add that
\* returns 0 for a path that exists has registered it.
C22_DisabledWhileUninitialized ==
    /\ (initialized = 0 /\ last.op \in {"add", "del"}) =>
          /\ last.ret = -1
          /\ iwlist = last.list0 /\ kwatch = last.kw0
    /\ initialized = 0 =>
          /\ \A p \in WatchPaths : iwatch_find_by_path(iwlist, p) = 0
          /\ \A wd \in 0..(MaxWatches + 1) : iwatch_find_by_wd(iwlist, wd) = 0
    /\ (last.op = "init" /\ last.ret # -1) =>
          initialized = 1 /\ iwlist = <<>> /\ kwatch = {}
    /\ (initialized = 1 /\ last.op = "add" /\ last.existed /\ last.ret = 0) =>
          /\ Len(iwlist) = Len(last.list0) + 1
          /\ iwatch_find_by_path(iwlist, last.path) = 1

\* a path that exists was added after iwatch_exit, on a watcher that had
\* watches before
C22_Witness ==
    /\ initialized = 0 /\ nextwd > 1
    /\ last.op = "add" /\ last.existed /\ last.ret = -1

\* the registrations of a path in a list
RegsOf(list, path) == { i \in 1..Len(list) : list[i].path = path }
DeletedOnly ==
    /\ last.op = "del" /\ last.ret = 0
    /\ Cardinality(RegsOf(last.list0, last.path)) = 1

\* C23: after a successful add of a path that exists, iwatch_find_by_path
\* returns a registration of that path and iwatch_find_by_wd of its watch
\* descriptor returns a registration of the same path; after iwatch_del of
\* the only registration of a path, iwatch_find_by_path of the path and
\* iwatch_find_by_wd of its watch descriptor return nothing.
C23_RoundTrip ==
    /\ AddedNew =>
          LET n == iwatch_find_by_path(iwlist, last.path)
              k == iwatch_find_by_wd(iwlist, iwlist[n].wd)
          IN  /\ n # 0 /\ iwlist[n].path = last.path
              /\ k # 0 /\ iwlist[k].path = last.path
    /\ DeletedOnly =>
          /\ iwatch_find_by_path(iwlist, last.path) = 0
          /\ iwatch_find_by_wd(iwlist, last.list0[last.at].wd) = 0

\* the only registration of a path was deleted, another path stays
\* registered
C23_Witness ==
    DeletedOnly /\ iwlist # <<>> /\ last.list0[last.at].path = last.path

\* C24: iwatch_del removes the registration it is given and no other: every
\* other registration keeps its place in the order, its path and its watch
\* descriptor, and both lookups still find a registration for it; nothing
\* that happens to the paths removes a registration.
C24_DelRemovesOne ==
    /\ (last.op = "del" /\ last.ret = 0) =>
          /\ Len(iwlist) = Len(last.list0) - 1
          /\ \A j \in 1..Len(last.list0) :
                j # last.at =>
                   /\ iwlist[IF j < last.at THEN j ELSE j - 1] = last.list0[j]
                   /\ iwatch_find_by_path(iwlist, last.list0[j].path) # 0
                   /\ iwatch_find_by_wd(iwlist, last.list0[j].wd) # 0
    /\ last.op = "env" => iwlist = last.list0

\* the second of three registrations was deleted
C24_Witness ==
    last.op = "del" /\ last.ret = 0 /\ last.at = 2 /\ Len(iwlist) = 2

\* C25: on an initialized watcher every registration of the list has its
\* watch descriptor installed in the inotify instance, and every watch of
\* the instance has a registration.
C25_ListMatchesKernel ==
    (initialized = 1 /\ iwfd = "open") =>
        /\ \A i \in 1..Len(iwlist) : \E w \in kwatch : w.wd = iwlist[i].wd
        /\ \A w \in kwatch : \E i \in 1..Len(iwlist) : iwlist[i].wd = w.wd

\* C26: parse_finit_conf terminates for every file and every read outcome:
\* once the file is open the line loop ends, also when a read fails with an
\* I/O error before the end of the file.
C26_ParseTerminates == (conf_pc = "reading") ~> (conf_pc = "done")

====
